---- MODULE Spec2Model ----
(***************************************************************************)
(* A model of generate_icon.py: the icon renderer create_claudius_icon,    *)
(* the exporter create_icns and the part of __main__ that calls it.        *)
(*                                                                         *)
(* Two specifications share the module.                                    *)
(*   Spec        one call of create_claudius_icon(size), statement by      *)
(*               statement, for every size in 1..MaxSize and every set of  *)
(*               installed font files.                                     *)
(*   SpecExport  __main__ from line 136 on: one call of create_icns for    *)
(*               every destination path of Paths, every source image of    *)
(*               SourceImages and every prior content of the filesystem,   *)
(*               with the packaging tool free to exit zero or non-zero.    *)
(* The variables of the part a specification does not run keep the value   *)
(* Init gave them.                                                         *)
(***************************************************************************)
EXTENDS Integers, Sequences, FiniteSets, TLC

VARIABLES
    \* ---- create_claudius_icon
    rpc,            \* the statement create_claudius_icon is about to run
    size,           \* its argument
    installed,      \* the font files present on the host
    img,            \* the image: its dimensions
    layers,         \* the draw calls made on img so far, oldest first
    i,              \* the loop variable of the two for loops
    font,           \* the font selected (NoFont before the chain ran)
    tried,          \* the font loaders called so far, in order
    bbox,           \* the result of draw.textbbox
    \* ---- create_icns and its caller
    epc,            \* the statement __main__ / create_icns is about to run
    source_image,   \* create_icns' first argument
    output_path,    \* create_icns' second argument (a string, as characters)
    iconset_path,   \* the local of line 108
    fs,             \* the filesystem at output_path and at the staging path
    k,              \* index into sizes of the export loop
    runs,           \* number of times the packaging command was invoked
    tool_rc,        \* its exit status (meaningful once runs > 0)
    stdout          \* the lines printed so far

rvars == <<rpc, size, installed, img, layers, i, font, tried, bbox>>
evars == <<epc, source_image, output_path, iconset_path, fs, k, runs, tool_rc, stdout>>
vars  == <<rpc, size, installed, img, layers, i, font, tried, bbox,
           epc, source_image, output_path, iconset_path, fs, k, runs, tool_rc, stdout>>

\* ------------------------------------------------------------------ bounds
\* Largest size create_claudius_icon is called with.
MaxSize == 41
\* Largest width and height textbbox reports for the glyph.
MaxGlyph == 1

\* ================================================================ renderer

TIMES      == "/System/Library/Fonts/Times.ttc"
TIMES_NEW  == "/System/Library/Fonts/Supplemental/Times New Roman.ttf"
DEFAULT    == "load_default"
NoFont     == "none"

\* line 36, 37: an RGB fill on an RGBA image is painted opaque
gold      == <<212, 175, 55, 255>>
dark_gold == <<180, 145, 35, 255>>
\* line 81
shadow_ink == <<20, 20, 20, 200>>

num_dots == 24

center(s)       == s \div 2
margin(s)       == s \div 10
outer_border(s) == s \div 30
inner_border(s) == s \div 40
inner_margin(s) == margin(s) + outer_border(s) + s \div 50
\* int(size * 0.55): the product of a positive int and the double nearest 0.55
\* (which lies above 0.55) never falls below an integer it should reach
font_size(s)     == (55 * s) \div 100
shadow_offset(s) == s \div 60
dot_radius(s)    == s \div 80
dot_distance(s)  == s \div 2 - margin(s) - s \div 15

\* GradientColour with the red and blue spans exchanged
GradientColourSwapped(line, s) ==
    << 88 + (30 * line) \div s, 28 + (20 * line) \div s, 108 + (40 * line) \div s, 255 >>

\* lines 29-32.  ratio = i / size is a double; 40 * ratio is within one ulp of
\* 40*i/size, and adding 88 rounds that error away when 40*i/size is an
\* integer, while a non-integer 40*i/size is at least 1/size from an integer:
\* int(88 + 40 * ratio) is 88 + floor(40*i/size) for every size a host can hold.
GradientColour(line, s) ==
    << 88 + (40 * line) \div s, 28 + (20 * line) \div s, 108 + (30 * line) \div s, 255 >>

\* A draw call on img.
DrawOp(step, op, xy, ink, width, fnt) ==
    [step |-> step, op |-> op, xy |-> xy, ink |-> ink, width |-> width, font |-> fnt]

InitRenderIdle ==
    /\ rpc = "idle" /\ size = 0 /\ installed = {} /\ img = <<0, 0>>
    /\ layers = <<>> /\ i = 0 /\ font = NoFont /\ tried = <<>> /\ bbox = <<0, 0, 0, 0>>

InitExportIdle ==
    /\ epc = "idle" /\ source_image = <<>> /\ output_path = <<>> /\ iconset_path = <<>>
    /\ fs = <<>> /\ k = 0 /\ runs = 0 /\ tool_rc = 0 /\ stdout = <<>>

Init ==
    /\ size \in 1..MaxSize
    /\ installed \in SUBSET {TIMES, TIMES_NEW}
    /\ rpc = "new"
    /\ img = <<0, 0>>
    /\ layers = <<>>
    /\ i = 0
    /\ font = NoFont
    /\ tried = <<>>
    /\ bbox = <<0, 0, 0, 0>>
    /\ InitExportIdle

\* NewImage with the default size in place of the argument
NewImageDefaultSize ==
    /\ rpc = "new"
    /\ img' = <<1024, 1024>>
    /\ layers' = <<>>
    /\ i' = 0
    /\ rpc' = "gradient"
    /\ UNCHANGED evars
    /\ UNCHANGED <<size, installed, font, tried, bbox>>

\* line 21-22
NewImage ==
    /\ rpc = "new"
    /\ img' = <<size, size>>
    /\ layers' = <<>>
    /\ i' = 0
    /\ rpc' = "gradient"
    /\ UNCHANGED evars
    /\ UNCHANGED <<size, installed, font, tried, bbox>>

\* lines 28-33: one iteration of the scanline loop
GradientLine ==
    /\ rpc = "gradient"
    /\ i < size
    /\ layers' = Append(layers,
                   DrawOp("gradient", "line", <<0, i, size, i>>, GradientColour(i, size), 0, NoFont))
    /\ i' = i + 1
    /\ rpc' = IF i + 1 < size THEN "gradient" ELSE "outer_ring"
    /\ UNCHANGED evars
    /\ UNCHANGED <<size, installed, img, font, tried, bbox>>

\* lines 44-48
OuterRing ==
    /\ rpc = "outer_ring"
    /\ layers' = Append(layers,
                   DrawOp("outer_ring", "ellipse",
                          <<margin(size), margin(size), size - margin(size), size - margin(size)>>,
                          gold, outer_border(size), NoFont))
    /\ rpc' = "inner_ring"
    /\ UNCHANGED evars
    /\ UNCHANGED <<size, installed, img, i, font, tried, bbox>>

\* lines 51-56
InnerRing ==
    /\ rpc = "inner_ring"
    /\ layers' = Append(layers,
                   DrawOp("inner_ring", "ellipse",
                          <<inner_margin(size), inner_margin(size),
                            size - inner_margin(size), size - inner_margin(size)>>,
                          dark_gold, inner_border(size), NoFont))
    /\ rpc' = "font_preferred"
    /\ UNCHANGED evars
    /\ UNCHANGED <<size, installed, img, i, font, tried, bbox>>

\* ImageFont.truetype(path, font_size): loads when the file is there and the
\* size is one FreeType accepts, raises otherwise.
TruetypeLoads(path, fsize) == path \in installed /\ fsize > 0

\* TryPreferred falling straight through to the built-in font
TryPreferredSkipsAlternate ==
    /\ rpc = "font_preferred"
    /\ tried' = Append(tried, TIMES)
    /\ IF TruetypeLoads(TIMES, font_size(size))
         THEN font' = TIMES /\ rpc' = "textbbox"
         ELSE font' = font /\ rpc' = "font_default"
    /\ UNCHANGED evars
    /\ UNCHANGED <<size, installed, img, layers, i, bbox>>

\* lines 61-63: the preferred serif font; any exception goes to line 64
TryPreferred ==
    /\ rpc = "font_preferred"
    /\ tried' = Append(tried, TIMES)
    /\ IF TruetypeLoads(TIMES, font_size(size))
         THEN font' = TIMES /\ rpc' = "textbbox"
         ELSE font' = font /\ rpc' = "font_alternate"
    /\ UNCHANGED evars
    /\ UNCHANGED <<size, installed, img, layers, i, bbox>>

\* lines 64-66: the alternate serif font; any exception goes to line 67
TryAlternate ==
    /\ rpc = "font_alternate"
    /\ tried' = Append(tried, TIMES_NEW)
    /\ IF TruetypeLoads(TIMES_NEW, font_size(size))
         THEN font' = TIMES_NEW /\ rpc' = "textbbox"
         ELSE font' = font /\ rpc' = "font_default"
    /\ UNCHANGED evars
    /\ UNCHANGED <<size, installed, img, layers, i, bbox>>

\* line 67: the built-in font
LoadDefault ==
    /\ rpc = "font_default"
    /\ tried' = Append(tried, DEFAULT)
    /\ font' = DEFAULT
    /\ rpc' = "textbbox"
    /\ UNCHANGED evars
    /\ UNCHANGED <<size, installed, img, layers, i, bbox>>

\* line 72: the glyph's bounding box depends on the font file; any box with
\* sides up to MaxGlyph
TextBBox ==
    /\ rpc = "textbbox"
    /\ \E w \in 0..MaxGlyph, h \in 0..MaxGlyph : bbox' = <<0, 0, w, h>>
    /\ rpc' = "shadow"
    /\ UNCHANGED evars
    /\ UNCHANGED <<size, installed, img, layers, i, font, tried>>

text_width  == bbox[3] - bbox[1]
text_height == bbox[4] - bbox[2]
text_x == center(size) - text_width \div 2
text_y == center(size) - text_height \div 2 - size \div 25

\* DrawShadow painting the main glyph first and the shadow over it
DrawShadowOverGlyph ==
    /\ rpc = "shadow"
    /\ layers' = layers \o
                 << DrawOp("glyph", "text", <<text_x, text_y>>, gold, 0, font),
                    DrawOp("shadow", "text",
                           <<text_x + shadow_offset(size), text_y + shadow_offset(size)>>,
                           shadow_ink, 0, font) >>
    /\ i' = 0
    /\ rpc' = "dots"
    /\ UNCHANGED evars
    /\ UNCHANGED <<size, installed, img, font, tried, bbox>>

\* lines 80-81
DrawShadow ==
    /\ rpc = "shadow"
    /\ layers' = Append(layers,
                   DrawOp("shadow", "text",
                          <<text_x + shadow_offset(size), text_y + shadow_offset(size)>>,
                          shadow_ink, 0, font))
    /\ rpc' = "glyph"
    /\ UNCHANGED evars
    /\ UNCHANGED <<size, installed, img, i, font, tried, bbox>>

\* line 84
DrawGlyph ==
    /\ rpc = "glyph"
    /\ layers' = Append(layers, DrawOp("glyph", "text", <<text_x, text_y>>, gold, 0, font))
    /\ i' = 0
    /\ rpc' = "dots"
    /\ UNCHANGED evars
    /\ UNCHANGED <<size, installed, img, font, tried, bbox>>

\* AngleDeg without the quarter turn: the first dot on the right
AngleDegNoOffset(n) == (n * 360) \div num_dots

\* line 92, in degrees: (i / num_dots) * 2 pi - pi / 2
AngleDeg(n) == (n * 360) \div num_dots - 90

\* 1000 * cos of 0, 15, ..., 90 degrees, rounded
CosQ == <<1000, 966, 866, 707, 500, 259, 0>>

\* 1000 * math.cos of a multiple of 15 degrees
Cos1000(d) ==
    LET m == d % 360
    IN  IF m <= 90 THEN CosQ[m \div 15 + 1]
        ELSE IF m <= 180 THEN 0 - CosQ[(180 - m) \div 15 + 1]
        ELSE IF m <= 270 THEN 0 - CosQ[(m - 180) \div 15 + 1]
        ELSE CosQ[(360 - m) \div 15 + 1]

\* 1000 * math.sin
Sin1000(d) == Cos1000(d - 90)

\* lines 93-94, in thousandths of a pixel
DotX(n, s) == 1000 * center(s) + Cos1000(AngleDeg(n)) * dot_distance(s)
DotY(n, s) == 1000 * center(s) + Sin1000(AngleDeg(n)) * dot_distance(s)

\* lines 91-98: one iteration of the dot loop (xy in thousandths of a pixel)
DrawDot ==
    /\ rpc = "dots"
    /\ i < num_dots
    /\ LET x == DotX(i, size)
           y == DotY(i, size)
           r == 1000 * dot_radius(size)
       IN  layers' = Append(layers,
                       DrawOp("dot", "ellipse", <<x - r, y - r, x + r, y + r>>, dark_gold, 0, NoFont))
    /\ i' = i + 1
    /\ rpc' = IF i + 1 < num_dots THEN "dots" ELSE "return"
    /\ UNCHANGED evars
    /\ UNCHANGED <<size, installed, img, font, tried, bbox>>

\* line 100
Return ==
    /\ rpc = "return"
    /\ rpc' = "done"
    /\ UNCHANGED evars
    /\ UNCHANGED <<size, installed, img, layers, i, font, tried, bbox>>

Next ==
    \/ NewImage
    \/ GradientLine
    \/ OuterRing
    \/ InnerRing
    \/ TryPreferred
    \/ TryAlternate
    \/ LoadDefault
    \/ TextBBox
    \/ DrawShadow
    \/ DrawGlyph
    \/ DrawDot
    \/ Return

Spec == Init /\ [][Next]_vars

\* ================================================================ exporter

\* ------------------------------------------------------------------ bounds
\* Largest number of segments a destination path is built from.
MaxParts == 3
\* Largest width and height of the source image.
MaxSide == 2
\* Largest exit status of the packaging command.
MaxExit == 2

\* line 105
sizes == <<16, 32, 64, 128, 256, 512, 1024>>

\* Strings are sequences of characters, so that str.replace works on them as
\* it does in Python.
ICNS    == <<".", "i", "c", "n", "s">>
ICONSET == <<".", "i", "c", "o", "n", "s", "e", "t">>
PNG     == <<".", "p", "n", "g">>

StartsWith(s, p) == Len(s) >= Len(p) /\ SubSeq(s, 1, Len(p)) = p

\* str.replace(old, new): every non-overlapping occurrence, left to right
RECURSIVE StrReplace(_, _, _)
StrReplace(s, old, new) ==
    IF s = <<>> THEN <<>>
    ELSE IF StartsWith(s, old)
         THEN new \o StrReplace(SubSeq(s, Len(old) + 1, Len(s)), old, new)
         ELSE <<Head(s)>> \o StrReplace(Tail(s), old, new)

\* The pieces destination paths are made of.
Segments == { <<"a">>, <<"/">>, ICNS, PNG }

RECURSIVE Concats(_)
Concats(n) ==
    IF n = 0 THEN { <<>> }
    ELSE LET shorter == Concats(n - 1)
         IN  shorter \cup { p \o g : p \in shorter, g \in Segments }

\* A path that can name a file: not empty, no empty component, no trailing /
IsFilePath(p) ==
    /\ p # <<>>
    /\ p[Len(p)] # "/"
    /\ \A j \in 1..(Len(p) - 1) : ~(p[j] = "/" /\ p[j + 1] = "/")

Paths == { p \in Concats(MaxParts) : IsFilePath(p) }

\* An image: its dimensions, the picture it shows, and the sizes the pixels
\* went through on the way (one entry per resize).
Image(w, h, base, hist) == [size |-> <<w, h>>, base |-> base, hist |-> hist]

SourceImages == { Image(w, h, "icon", <<>>) : w \in 1..MaxSide, h \in 1..MaxSide }

\* Image.resize((w, h), LANCZOS): a new image, resampled from im
Resize(im, w, h) == Image(w, h, im.base, Append(im.hist, im.size))

\* f'icon_{size}x{size}.png' and f'icon_{size}x{size}@2x.png'
IconName(n)   == "icon_" \o ToString(n) \o "x" \o ToString(n) \o ".png"
IconName2x(n) == "icon_" \o ToString(n) \o "x" \o ToString(n) \o "@2x.png"

\* A filesystem node: nothing, a regular file, or a directory of named images.
NoNode       == [kind |-> "none", entries |-> {}]
FileNode     == [kind |-> "file", entries |-> {}]
DirNode(es)  == [kind |-> "dir",  entries |-> es]
Entry(name, im) == [name |-> name, image |-> im]

\* Image.save(path): creates or overwrites the file of that name
WriteEntry(es, name, im) == { e \in es : e.name # name } \cup { Entry(name, im) }

\* What an earlier run of the script on another picture left in the staging
\* directory: the files of its first n sizes.
Stale == Image(1, 1, "stale", <<>>)
StaleEntries(n) ==
    UNION { { Entry(IconName(sizes[j]), Resize(Stale, sizes[j], sizes[j])) }
            \cup (IF sizes[j] <= 512
                    THEN { Entry(IconName2x(sizes[j]), Resize(Stale, 2 * sizes[j], 2 * sizes[j])) }
                    ELSE {})
            : j \in 1..n }

\* The staging directory before the call: absent, empty, or left by an earlier
\* run that stopped after two sizes or after all of them.
PriorStaging == { NoNode, DirNode({}), DirNode(StaleEntries(2)), DirNode(StaleEntries(Len(sizes))) }
\* The destination before the call: absent, or the file of an earlier run.
PriorOutput == { NoNode, FileNode }

PriorFs(out) ==
    LET stg == StrReplace(out, ICNS, ICONSET)
    IN  IF stg = out
          THEN { [p \in {out} |-> n] : n \in PriorStaging \cup PriorOutput }
          ELSE { [p \in {out, stg} |-> IF p = out THEN o ELSE n] :
                    o \in PriorOutput, n \in PriorStaging }

InitExport ==
    /\ InitRenderIdle
    /\ output_path \in Paths
    /\ source_image \in SourceImages
    /\ iconset_path = <<>>
    /\ fs \in PriorFs(output_path)
    /\ epc = "main_call"
    /\ k = 0
    /\ runs = 0
    /\ tool_rc = 0
    /\ stdout = <<"Saved PNG">>

\* line 138: __main__ calls create_icns
MainCall ==
    /\ epc = "main_call"
    /\ epc' = "replace"
    /\ UNCHANGED rvars
    /\ UNCHANGED <<source_image, output_path, iconset_path, fs, k, runs, tool_rc, stdout>>

\* line 108
DeriveIconsetPath ==
    /\ epc = "replace"
    /\ iconset_path' = StrReplace(output_path, ICNS, ICONSET)
    /\ epc' = "makedirs"
    /\ UNCHANGED rvars
    /\ UNCHANGED <<source_image, output_path, fs, k, runs, tool_rc, stdout>>

\* line 109: os.makedirs(iconset_path, exist_ok=True) keeps a directory that is
\* there and raises FileExistsError on a regular file
Makedirs ==
    /\ epc = "makedirs"
    /\ IF fs[iconset_path].kind = "file"
         THEN /\ epc' = "raised"
              /\ UNCHANGED <<fs, k>>
         ELSE /\ fs' = [fs EXCEPT ![iconset_path] = DirNode(fs[iconset_path].entries)]
              /\ k' = 1
              /\ epc' = "save"
    /\ UNCHANGED rvars
    /\ UNCHANGED <<source_image, output_path, iconset_path, runs, tool_rc, stdout>>

\* Where the loop goes after the last save of iteration k.
AfterIteration == IF k < Len(sizes) THEN "save" ELSE "iconutil"

\* SaveBase with the retina test as a strict comparison
SaveBaseStrict ==
    /\ epc = "save"
    /\ fs' = [fs EXCEPT ![iconset_path] =
                DirNode(WriteEntry(@.entries, IconName(sizes[k]),
                                   Resize(source_image, sizes[k], sizes[k])))]
    /\ IF sizes[k] < 512
         THEN epc' = "save2x" /\ k' = k
         ELSE epc' = AfterIteration /\ k' = IF k < Len(sizes) THEN k + 1 ELSE k
    /\ UNCHANGED rvars
    /\ UNCHANGED <<source_image, output_path, iconset_path, runs, tool_rc, stdout>>

\* SaveBase resizing the source in place
SaveBaseInPlace ==
    /\ epc = "save"
    /\ source_image' = Resize(source_image, sizes[k], sizes[k])
    /\ fs' = [fs EXCEPT ![iconset_path] =
                DirNode(WriteEntry(@.entries, IconName(sizes[k]), source_image'))]
    /\ IF sizes[k] <= 512
         THEN epc' = "save2x" /\ k' = k
         ELSE epc' = AfterIteration /\ k' = IF k < Len(sizes) THEN k + 1 ELSE k
    /\ UNCHANGED rvars
    /\ UNCHANGED <<output_path, iconset_path, runs, tool_rc, stdout>>

\* lines 112-113, and the test of line 115
SaveBase ==
    /\ epc = "save"
    /\ fs' = [fs EXCEPT ![iconset_path] =
                DirNode(WriteEntry(@.entries, IconName(sizes[k]),
                                   Resize(source_image, sizes[k], sizes[k])))]
    /\ IF sizes[k] <= 512
         THEN epc' = "save2x" /\ k' = k
         ELSE epc' = AfterIteration /\ k' = IF k < Len(sizes) THEN k + 1 ELSE k
    /\ UNCHANGED rvars
    /\ UNCHANGED <<source_image, output_path, iconset_path, runs, tool_rc, stdout>>

\* lines 116-117
Save2x ==
    /\ epc = "save2x"
    /\ fs' = [fs EXCEPT ![iconset_path] =
                DirNode(WriteEntry(@.entries, IconName2x(sizes[k]),
                                   Resize(source_image, sizes[k] * 2, sizes[k] * 2)))]
    /\ epc' = AfterIteration
    /\ k' = IF k < Len(sizes) THEN k + 1 ELSE k
    /\ UNCHANGED rvars
    /\ UNCHANGED <<source_image, output_path, iconset_path, runs, tool_rc, stdout>>

\* RunIconutil without check=True: the exit status is ignored
RunIconutilUnchecked ==
    /\ epc = "iconutil"
    /\ runs' = runs + 1
    /\ \E rc \in 0..MaxExit :
         /\ tool_rc' = rc
         /\ IF rc = 0
              THEN fs' = [fs EXCEPT ![output_path] = FileNode] /\ epc' = "rmtree"
              ELSE fs' = fs /\ epc' = "rmtree"
    /\ UNCHANGED rvars
    /\ UNCHANGED <<source_image, output_path, iconset_path, k, stdout>>

\* line 120: subprocess.run([...], check=True) waits for the command; exit
\* status 0 leaves the packed file at output_path, any other status raises
\* CalledProcessError
RunIconutil ==
    /\ epc = "iconutil"
    /\ runs' = runs + 1
    /\ \E rc \in 0..MaxExit :
         /\ tool_rc' = rc
         /\ IF rc = 0
              THEN fs' = [fs EXCEPT ![output_path] = FileNode] /\ epc' = "rmtree"
              ELSE fs' = fs /\ epc' = "raised"
    /\ UNCHANGED rvars
    /\ UNCHANGED <<source_image, output_path, iconset_path, k, stdout>>

\* Rmtree that returns without removing anything
RmtreeKeeps ==
    /\ epc = "rmtree"
    /\ IF fs[iconset_path].kind = "dir"
         THEN fs' = fs /\ epc' = "returned"
         ELSE fs' = fs /\ epc' = "raised"
    /\ UNCHANGED rvars
    /\ UNCHANGED <<source_image, output_path, iconset_path, k, runs, tool_rc, stdout>>

\* line 123: shutil.rmtree removes a directory and raises on anything else
Rmtree ==
    /\ epc = "rmtree"
    /\ IF fs[iconset_path].kind = "dir"
         THEN fs' = [fs EXCEPT ![iconset_path] = NoNode] /\ epc' = "returned"
         ELSE fs' = fs /\ epc' = "raised"
    /\ UNCHANGED rvars
    /\ UNCHANGED <<source_image, output_path, iconset_path, k, runs, tool_rc, stdout>>

\* line 139
PrintSaved ==
    /\ epc = "returned"
    /\ stdout' = Append(stdout, "Saved ICNS")
    /\ epc' = "print_complete"
    /\ UNCHANGED rvars
    /\ UNCHANGED <<source_image, output_path, iconset_path, fs, k, runs, tool_rc>>

\* line 141
PrintComplete ==
    /\ epc = "print_complete"
    /\ stdout' = Append(stdout, "Icon generation complete!")
    /\ epc' = "exit_ok"
    /\ UNCHANGED rvars
    /\ UNCHANGED <<source_image, output_path, iconset_path, fs, k, runs, tool_rc>>

\* __main__ has no handler: an exception of create_icns ends the program
Uncaught ==
    /\ epc = "raised"
    /\ epc' = "exit_fail"
    /\ UNCHANGED rvars
    /\ UNCHANGED <<source_image, output_path, iconset_path, fs, k, runs, tool_rc, stdout>>

NextExport ==
    \/ MainCall
    \/ DeriveIconsetPath
    \/ Makedirs
    \/ SaveBase
    \/ Save2x
    \/ RunIconutil
    \/ Rmtree
    \/ PrintSaved
    \/ PrintComplete
    \/ Uncaught

SpecExport == InitExport /\ [][NextExport]_vars

\* ================================================================ properties
\* ---------------------------------------------------------------- renderer

\* The draw calls of one step, oldest first.
LayersOf(step) == SelectSeq(layers, LAMBDA l : l.step = step)

\* The statement is past the font chain.
FontChosen == rpc \in {"textbbox", "shadow", "glyph", "dots", "return", "done"}

PreferredLoads == TIMES \in installed /\ font_size(size) > 0
AlternateLoads == TIMES_NEW \in installed /\ font_size(size) > 0

IsPrefix(s, t) == Len(s) <= Len(t) /\ \A j \in 1..Len(s) : s[j] = t[j]

\* C4: the font chain is an ordered fallback: the preferred path is tried
\* first, the alternate path only after the preferred one failed, the built-in
\* font only after both failed; whatever fonts are installed a font is
\* selected, the call never ends in an error, and the glyph is drawn with the
\* selected font.
C4_FontFallbackChain ==
    /\ rpc # "raised"
    /\ IsPrefix(tried, <<TIMES, TIMES_NEW, DEFAULT>>)
    /\ (Len(tried) >= 2 => ~PreferredLoads)
    /\ (Len(tried) >= 3 => ~PreferredLoads /\ ~AlternateLoads)
    /\ FontChosen =>
         /\ font \in {TIMES, TIMES_NEW, DEFAULT}
         /\ font = tried[Len(tried)]
         /\ (font = TIMES <=> PreferredLoads)
         /\ (font = TIMES_NEW <=> ~PreferredLoads /\ AlternateLoads)
         /\ (font = DEFAULT <=> ~PreferredLoads /\ ~AlternateLoads)
    /\ rpc = "done" =>
         /\ Len(LayersOf("glyph")) = 1
         /\ LayersOf("glyph")[1].font = font
         /\ LayersOf("glyph")[1].op = "text"

\* C4 witness: no serif font installed, the call finished, the glyph was drawn
\* with the built-in font.
C4_Witness ==
    /\ rpc = "done"
    /\ installed = {}
    /\ tried = <<TIMES, TIMES_NEW, DEFAULT>>
    /\ Len(LayersOf("glyph")) = 1
    /\ LayersOf("glyph")[1].font = DEFAULT

\* C5: from its creation on, through every drawing step and at the return, the
\* image is exactly size x size pixels.
C5_ImageIsSizeBySize ==
    rpc # "new" => img = <<size, size>>

\* C5 witness: a finished call on a size above 1, all drawing steps done.
C5_Witness ==
    /\ rpc = "done"
    /\ size = MaxSize
    /\ img = <<MaxSize, MaxSize>>
    /\ Len(layers) = MaxSize + 28

\* The gradient line painted on scanline y, if any.
ScanlineInk(y) ==
    LET hits == SelectSeq(layers, LAMBDA l : l.op = "line" /\ l.xy = <<0, y, size, y>>)
    IN  IF hits = <<>> THEN <<>> ELSE hits[Len(hits)].ink

Abs(x) == IF x < 0 THEN 0 - x ELSE x

\* Within 1 per channel of the end colour (128, 48, 138).
NearEndColour(ink) ==
    /\ Len(ink) = 4
    /\ Abs(ink[1] - 128) <= 1
    /\ Abs(ink[2] - 48) <= 1
    /\ Abs(ink[3] - 138) <= 1

GradientPainted == rpc \notin {"new", "gradient"}

\* C6 (as amended): scanline y is painted (88 + floor(40y/size),
\* 28 + floor(20y/size), 108 + floor(30y/size)) at alpha 255; the top scanline
\* is exactly (88, 28, 108); the bottom scanline is within 1 per channel of
\* (128, 48, 138) when size >= 40.
C6_GradientColours ==
    /\ \A j \in 1..Len(layers) :
         layers[j].op = "line" =>
            LET y == layers[j].xy[2]
            IN  layers[j].ink = << 88 + (40 * y) \div size,
                                   28 + (20 * y) \div size,
                                   108 + (30 * y) \div size, 255 >>
    /\ GradientPainted =>
         /\ \A y \in 0..(size - 1) : ScanlineInk(y) # <<>>
         /\ ScanlineInk(0) = <<88, 28, 108, 255>>
         /\ (size >= 40 => NearEndColour(ScanlineInk(size - 1)))

\* C6 witness: a finished gradient of 40 or more scanlines whose bottom
\* scanline is (127, 47, 137).
C6_Witness ==
    /\ GradientPainted
    /\ size >= 40
    /\ ScanlineInk(0) = <<88, 28, 108, 255>>
    /\ ScanlineInk(size - 1) = <<127, 47, 137, 255>>

\* C6 as stated: for every size > 0 the bottom scanline is within 1 per
\* channel of the end colour.
C6_BottomNearEndForEverySize ==
    GradientPainted => NearEndColour(ScanlineInk(size - 1))

\* The centre of a dot, in thousandths of a pixel.
DotCentre(l) == << (l.xy[1] + l.xy[3]) \div 2, (l.xy[2] + l.xy[4]) \div 2 >>

\* The radius of the dot circle, as the claim writes it.
DotCircleRadius == size \div 2 - size \div 10 - size \div 15

\* z-component of the cross product of the vectors from the image centre to
\* two dots; positive when the second is clockwise of the first on the screen
\* (y grows downwards).
Cross(a, b) ==
    LET c == 1000 * (size \div 2)
    IN  (a[1] - c) * (b[2] - c) - (a[2] - c) * (b[1] - c)

\* C7: a finished call has drawn exactly 24 dots; dot n lies at angle
\* 15n - 90 degrees on the circle of radius size/2 - margin - size/15 around
\* the centre; the first is at the top, each next one is clockwise of the one
\* before, and no two dots share a position on a circle of positive radius.
C7_TwentyFourDots ==
    rpc \in {"return", "done"} =>
        LET dots == LayersOf("dot")
            c    == 1000 * (size \div 2)
        IN  /\ Len(dots) = 24
            /\ \A n \in 0..23 :
                  DotCentre(dots[n + 1]) =
                     << c + Cos1000(15 * n - 90) * DotCircleRadius,
                        c + Sin1000(15 * n - 90) * DotCircleRadius >>
            /\ DotCentre(dots[1]) = << c, c - 1000 * DotCircleRadius >>
            /\ DotCircleRadius > 0 =>
                  /\ \A n \in 1..23 : Cross(DotCentre(dots[n]), DotCentre(dots[n + 1])) > 0
                  /\ \A m, n \in 1..24 : m # n => DotCentre(dots[m]) # DotCentre(dots[n])

\* C7 witness: a finished call on a size whose dot circle has a positive
\* radius, with the second dot to the right of and below the first.
C7_Witness ==
    /\ rpc = "done"
    /\ DotCircleRadius > 0
    /\ Len(LayersOf("dot")) = 24
    /\ DotCentre(LayersOf("dot")[2])[1] > DotCentre(LayersOf("dot")[1])[1]
    /\ DotCentre(LayersOf("dot")[2])[2] > DotCentre(LayersOf("dot")[1])[2]

\* The steps of a whole call on size s, in order.
ExpectedSteps(s) ==
    [j \in 1..(s + 28) |->
        IF j <= s THEN "gradient"
        ELSE IF j = s + 1 THEN "outer_ring"
        ELSE IF j = s + 2 THEN "inner_ring"
        ELSE IF j = s + 3 THEN "shadow"
        ELSE IF j = s + 4 THEN "glyph"
        ELSE "dot"]

\* The number of draw calls made when the call is at a statement.
DrawnAt ==
    CASE rpc = "new"        -> 0
      [] rpc = "gradient"   -> i
      [] rpc = "outer_ring" -> size
      [] rpc = "inner_ring" -> size + 1
      [] rpc \in {"font_preferred", "font_alternate", "font_default", "textbbox", "shadow"}
                            -> size + 2
      [] rpc = "glyph"      -> size + 3
      [] rpc = "dots"       -> size + 4 + i
      [] OTHER              -> size + 28

\* What each step paints with.
StepInk(l) ==
    CASE l.step = "gradient"   -> l.op = "line" /\ l.xy = <<0, l.xy[2], size, l.xy[2]>>
      [] l.step = "outer_ring" -> l.op = "ellipse" /\ l.ink = <<212, 175, 55, 255>>
      [] l.step = "inner_ring" -> l.op = "ellipse" /\ l.ink = <<180, 145, 35, 255>>
      [] l.step = "shadow"     -> l.op = "text" /\ l.ink = <<20, 20, 20, 200>>
      [] l.step = "glyph"      -> l.op = "text" /\ l.ink = <<212, 175, 55, 255>>
      [] l.step = "dot"        -> l.op = "ellipse" /\ l.ink = <<180, 145, 35, 255>>
      [] OTHER                 -> FALSE

\* C10: the draw calls made so far are always the first ones of the fixed
\* order (size gradient scanlines, outer ring, inner ring, shadow, main glyph,
\* 24 dots), a step starts only when all earlier ones are complete, the
\* scanlines are 0..size-1 once each, and a finished call has made each of
\* them exactly once.
C10_PaintingOrder ==
    /\ Len(layers) = DrawnAt
    /\ Len(layers) <= size + 28
    /\ \A j \in 1..Len(layers) :
         /\ layers[j].step = ExpectedSteps(size)[j]
         /\ StepInk(layers[j])
         /\ (j <= size => layers[j].xy[2] = j - 1)

\* C10 witness: a finished call whose shadow was drawn right before the main
\* glyph, after both rings and before the dots.
C10_Witness ==
    /\ rpc = "done"
    /\ size > 1
    /\ Len(layers) = size + 28
    /\ layers[size + 3].step = "shadow"
    /\ layers[size + 4].step = "glyph"

\* ---------------------------------------------------------------- exporter

\* The staging directory's files, once line 108 has named it.
Staged == fs[iconset_path].entries

\* The staged file of a name, if there is exactly one.
StagedSize(name) ==
    LET hits == { e \in Staged : e.name = name }
    IN  IF Cardinality(hits) = 1 THEN (CHOOSE e \in hits : TRUE).image.size ELSE <<>>

\* C1: when create_icns is about to invoke the packaging command the staging
\* directory holds exactly 13 images: icon_NxN.png of N x N pixels for the 7
\* sizes, icon_NxN@2x.png of 2N x 2N pixels for the 6 sizes up to 512, none
\* for 1024, and every one of them is square.
C1_ThirteenStagedImages ==
    epc = "iconutil" =>
        /\ fs[iconset_path].kind = "dir"
        /\ Cardinality(Staged) = 13
        /\ Cardinality({ e.name : e \in Staged }) = 13
        /\ \A n \in {16, 32, 64, 128, 256, 512, 1024} : StagedSize(IconName(n)) = <<n, n>>
        /\ \A n \in {16, 32, 64, 128, 256, 512} : StagedSize(IconName2x(n)) = <<2 * n, 2 * n>>
        /\ StagedSize("icon_16x16.png") = <<16, 16>>
        /\ StagedSize("icon_16x16@2x.png") = <<32, 32>>
        /\ StagedSize("icon_512x512@2x.png") = <<1024, 1024>>
        /\ StagedSize("icon_1024x1024.png") = <<1024, 1024>>
        /\ StagedSize("icon_1024x1024@2x.png") = <<>>
        /\ \A e \in Staged : e.image.size[1] = e.image.size[2]

\* C1 witness: the packaging command is about to run on 13 files staged from
\* a source image that is not square.
C1_Witness ==
    /\ epc = "iconutil"
    /\ source_image.size[1] # source_image.size[2]
    /\ Cardinality(Staged) = 13
    /\ StagedSize("icon_512x512@2x.png") = <<1024, 1024>>

\* C2: once create_icns has returned, the staging directory and its files are
\* gone and the packaging command has run once and exited zero; before the
\* command runs the directory is there, and it is removed by no step other
\* than the one after the command.
C2_StagingRemovedAfterPackaging ==
    /\ epc \in {"returned", "print_complete", "exit_ok"} =>
         /\ fs[iconset_path] = NoNode
         /\ runs = 1
         /\ tool_rc = 0
    /\ epc \in {"save", "save2x", "iconutil"} =>
         /\ fs[iconset_path].kind = "dir"
         /\ runs = 0
    /\ epc = "rmtree" =>
         /\ runs = 1
         /\ tool_rc = 0
         /\ (iconset_path # output_path => fs[iconset_path].kind = "dir")

\* C2 witness: the program ended normally, the packed file is there and the
\* staging directory is not.
C2_Witness ==
    /\ epc = "exit_ok"
    /\ runs = 1
    /\ fs[output_path] = FileNode
    /\ fs[iconset_path] = NoNode

ToolFailed == runs > 0 /\ tool_rc # 0

\* C3: after the packaging command exited non-zero, create_icns has raised and
\* the program ends on that exception; the command was invoked once; the
\* staging directory still holds its 13 images; neither success message is
\* printed.
C3_PackagingFailureIsFatal ==
    /\ runs <= 1
    /\ ToolFailed =>
         /\ epc \in {"raised", "exit_fail"}
         /\ runs = 1
         /\ fs[iconset_path].kind = "dir"
         /\ Cardinality(Staged) = 13
         /\ stdout = <<"Saved PNG">>
    /\ (\E j \in 1..Len(stdout) : stdout[j] \in {"Saved ICNS", "Icon generation complete!"}) =>
         runs = 1 /\ tool_rc = 0

\* C3 witness: the program ended on the exception of a packaging command that
\* exited with status 2, the staged images still in place.
C3_Witness ==
    /\ epc = "exit_fail"
    /\ runs = 1
    /\ tool_rc = 2
    /\ fs[iconset_path].kind = "dir"
    /\ Cardinality(Staged) = 13

\* Every image this call staged is one resize away from the source image.
StagedFromSource ==
    \A p \in DOMAIN fs : \A e \in fs[p].entries :
        e.image.base = "icon" =>
            /\ e.image.base = source_image.base
            /\ e.image.hist = <<source_image.size>>

\* C8: no step of create_icns or of its caller changes the source image, and
\* every image staged by the call is resized from the source image itself,
\* never from an earlier resize.
C8_SourceNeverMutated ==
    /\ [][source_image' = source_image]_vars
    /\ [](source_image \in SourceImages)
    /\ []StagedFromSource

\* C8 witness: all 13 images are staged, each one resize away from a source
\* image that is as it was passed in.
C8_Witness ==
    /\ epc = "rmtree"
    /\ iconset_path # output_path
    /\ source_image \in SourceImages
    /\ Cardinality(Staged) = 13
    /\ \A e \in Staged : e.image.hist = <<source_image.size>> /\ e.image.base = "icon"

\* Highest index of character c in p, 0 when there is none.
LastIndexOf(p, c) ==
    LET at == { j \in 1..Len(p) : p[j] = c }
    IN  IF at = {} THEN 0 ELSE CHOOSE j \in at : \A j2 \in at : j2 <= j

\* The path without its file extension: what precedes the last dot of the
\* last component, when a character other than a dot precedes it there.
WithoutExtension(p) ==
    LET sep == LastIndexOf(p, "/")
        dot == LastIndexOf(p, ".")
    IN  IF dot > sep /\ \E j \in (sep + 1)..(dot - 1) : p[j] # "."
          THEN SubSeq(p, 1, dot - 1)
          ELSE p

\* C9: the staging path is the destination path with only the extension of the
\* file replaced by .iconset, so it differs from the destination path, and
\* after a normal return the packed file is still there.
C9_OnlyExtensionReplaced ==
    epc \notin {"main_call", "replace"} =>
        /\ iconset_path = WithoutExtension(output_path) \o ICONSET
        /\ iconset_path # output_path
        /\ (epc \in {"returned", "print_complete", "exit_ok"} => fs[output_path] = FileNode)

====
